---- MODULE Spec2Model ----
(***************************************************************************)
(* Dirty-diff tracking engine (DirtyDiffModel) and the compare             *)
(* coordinator (CompareService).                                           *)
(*                                                                         *)
(* DirtyDiffModel is modelled from src/unnamed/part_001, CompareService    *)
(* from src/packages/editor/src/browser/diff/compare.ts.  ThrottledDelayer,*)
(* first, sortedDiff, compareChanges, getModifiedEndLineNumber and         *)
(* Deferred live in packages of the repository whose sources are not       *)
(* available; they are modelled from the design document (spec.md §3,      *)
(* §4.1, §4.2, §9).                                                        *)
(***************************************************************************)
EXTENDS Integers, Sequences, FiniteSets, TLC

NULL == "null"

\* ------------------------------------------------------------------ bounds
Providers == {"P1", "P2"}
Uris == {"orig://x", "orig://y"}
\* new ThrottledDelayer<IChange[]>(200)
DiffDelay == 200
\* granularity of the clock
TickStep == 100
\* most trigger calls waiting on one run of the gate
MaxWaiters == 2
\* most model references the resolver hands out
MaxRefs == 2
\* most Deferreds compare() creates
MaxDeferreds == 3
\* most OPEN_RESOURCE commands for one Deferred
MaxOpens == 2
\* largest line number findNextClosestChange / findPreviousClosestChange is asked for
MaxLine == 25
\* what compare() is called with
Resources == {"file://a", "file://b"}
Names == {"x"}

\* ------------------------------------------------------------ change sets
ChangeA ==
  [originalStartLineNumber |-> 1, originalEndLineNumber |-> 1,
   modifiedStartLineNumber |-> 1, modifiedEndLineNumber |-> 1, kind |-> "modify"]
ChangeB ==
  [originalStartLineNumber |-> 5, originalEndLineNumber |-> 5,
   modifiedStartLineNumber |-> 6, modifiedEndLineNumber |-> 6, kind |-> "modify"]
\* the ChangeSets the diff oracle can answer: ordered by modified start line
ChangeSets == {<<>>, <<ChangeA>>, <<ChangeB>>, <<ChangeA, ChangeB>>}
\* ChangeA after a line was added to its modified side
ChangeA2 == [ChangeA EXCEPT !.modifiedEndLineNumber = 2]
\* the ChangeSets of a document whose first change grows and shrinks
GrowingChangeSets == ChangeSets \cup {<<ChangeA2>>, <<ChangeA2, ChangeB>>}

\* the ChangeSets navigated: entries at the modified lines 2, 10 and 20, in order
NavChange(originalStart, modifiedStart, modifiedEnd) ==
  [originalStartLineNumber |-> originalStart, originalEndLineNumber |-> originalStart,
   modifiedStartLineNumber |-> modifiedStart, modifiedEndLineNumber |-> modifiedEnd,
   kind |-> "modify"]
NavChangeSets ==
  LET c1 == NavChange(2, 2, 3)
      c2 == NavChange(9, 10, 10)
      c3 == NavChange(19, 20, 21)
  IN {<<>>, <<c1>>, <<c2>>, <<c3>>, <<c1, c2>>, <<c1, c3>>, <<c2, c3>>, <<c1, c2, c3>>}
NavLines == 1..MaxLine

\* the modified-side end line of a change
getModifiedEndLineNumber(change) == change.modifiedEndLineNumber

KindRank(k) == CASE k = "add" -> 0 [] k = "modify" -> 1 [] OTHER -> 2

\* total order on changes: modified start line, original start line, kind
compareChanges(a, b) ==
  IF a.modifiedStartLineNumber # b.modifiedStartLineNumber
    THEN a.modifiedStartLineNumber - b.modifiedStartLineNumber
  ELSE IF a.originalStartLineNumber # b.originalStartLineNumber
    THEN a.originalStartLineNumber - b.originalStartLineNumber
  ELSE KindRank(a.kind) - KindRank(b.kind)

\* sortedDiff's pushSplice: drop an empty splice, merge an adjacent one
pushSplice(result, start, deleteCount, toInsert) ==
  IF deleteCount = 0 /\ Len(toInsert) = 0 THEN result
  ELSE IF Len(result) > 0
          /\ result[Len(result)].start + result[Len(result)].deleteCount = start
    THEN [result EXCEPT ![Len(result)] =
            [start |-> @.start, deleteCount |-> @.deleteCount + deleteCount,
             toInsert |-> @.toInsert \o toInsert]]
  ELSE Append(result, [start |-> start, deleteCount |-> deleteCount,
                       toInsert |-> toInsert])

RECURSIVE sortedDiffLoop(_, _, _, _, _)
sortedDiffLoop(before, after, beforeIdx, afterIdx, result) ==
  IF beforeIdx = Len(before)
    THEN pushSplice(result, beforeIdx, 0, SubSeq(after, afterIdx + 1, Len(after)))
  ELSE IF afterIdx = Len(after)
    THEN pushSplice(result, beforeIdx, Len(before) - beforeIdx, <<>>)
  ELSE LET n == compareChanges(before[beforeIdx + 1], after[afterIdx + 1]) IN
    IF n = 0 THEN sortedDiffLoop(before, after, beforeIdx + 1, afterIdx + 1, result)
    ELSE IF n < 0
      THEN sortedDiffLoop(before, after, beforeIdx + 1, afterIdx,
                          pushSplice(result, beforeIdx, 1, <<>>))
    ELSE sortedDiffLoop(before, after, beforeIdx, afterIdx + 1,
                        pushSplice(result, beforeIdx, 0, <<after[afterIdx + 1]>>))

\* the splices (start index in `before`, deleteCount, toInsert) turning before into after
sortedDiff(before, after) == sortedDiffLoop(before, after, 0, 0, <<>>)

\* a subscriber applying the splices of one fired delta, the last one first so
\* that the start indices, which refer to the old ChangeSet, stay valid
RECURSIVE ApplySplices(_, _)
ApplySplices(cs, splices) ==
  IF splices = <<>> THEN cs
  ELSE LET s == splices[Len(splices)]
           spliced == SubSeq(cs, 1, s.start) \o s.toInsert
                        \o SubSeq(cs, s.start + s.deleteCount + 1, Len(cs))
       IN ApplySplices(spliced, SubSeq(splices, 1, Len(splices) - 1))

\* -------------------------------------------------------------- variables
VARIABLES
  \* DirtyDiffModel fields
  editorModel,            \* _editorModel: "doc", or NULL after dispose()
  originalModel,          \* _originalModel: index into refs of its reference, 0 = null
  diffDelayer,            \* diffDelayer: "delayer", or NULL after dispose()
  originalURIPromise,     \* _originalURIPromise is set
  repositoryDisposables,  \* provider -> number of DisposableStores in the set that
                          \*   hold a subscription to its change events
  disposed,               \* Disposable.dispose() has run: constructor subscriptions released
  storeRef,               \* originalModelDisposables: index into refs, 0 = empty
  changes,                \* _changes
  \* the coalescing delay gate (ThrottledDelayer)
  gate,                   \* "idle" | "scheduled" | "running" | "requeued"
  timeLeft,               \* time-units until the pending timer fires
  waiters,                \* trigger calls waiting on the scheduled/running run
  queuedWaiters,          \* trigger calls waiting on the follow-up run
  \* the run of diff() in progress
  pc,                     \* "idle" | "query" | "createRef" | "computeDiff"
  qList,                  \* providers first() was given
  qIndex,                 \* position of first() in qList
  pendingUri,             \* original identifier being resolved / diffed
  \* settled run, its completion handlers still to run
  handlersLeft,
  handlerResult,          \* [isNull, changes, answered]: what diff() resolved with
  \* collaborators
  editorDisposed,         \* _editorModel.isDisposed()
  originalEmpty,          \* _originalModel.getValueLength() === 0
  repositories,           \* scmService.repositories, in registration order
  answer,                 \* provider -> its getOriginalResource answer
  refs,                   \* references createModelReference handed out: [uri, disposals]
  \* observation
  fired,                  \* the completion handler of the last step: whether it ran
                          \*   ("none" | "skipped" | "early" | "applied"), what it fired on onDidChange,
                          \*   _changes before it and the result it was given
  runsSince,              \* diff() executions since the gate last left idle / started a follow-up
  lastQuery,              \* the last provider query: [known, asked, result, done]
  view,                   \* a subscriber of onDidChange: the ChangeSet it gets by applying
                          \*   every fired delta, in order, to the empty ChangeSet
  \* CompareService
  comparing,              \* the map comparing: key -> index into deferreds, 0 = no entry
  deferreds,              \* every Deferred<CompareResult> created:
                          \*   [key, state, thenRun, opened, closed]
  lastCall,               \* the compare() call of the last step:
                          \*   [made, key, handle, created, opensBefore]
  lastFind                \* the findNextClosestChange / findPreviousClosestChange call
                          \*   of the last step: [op, lineNumber, inclusive, result]

NoQuery == [known |-> <<>>, asked |-> <<>>, result |-> NULL, done |-> FALSE]

gateVars == <<gate, timeLeft, waiters, queuedWaiters>>
runVars == <<pc, qList, qIndex, pendingUri, originalURIPromise, runsSince>>
settleVars == <<handlersLeft, handlerResult>>
modelVars == <<editorModel, originalModel, diffDelayer, repositoryDisposables,
               disposed, storeRef, changes>>
envVars == <<editorDisposed, originalEmpty, repositories, answer, refs>>
compareVars == <<comparing, deferreds, lastCall>>
trackerVars ==
  <<gateVars, runVars, settleVars, modelVars, envVars, fired, lastQuery, view>>
navVars == <<lastFind>>
vars == <<trackerVars, compareVars, navVars>>

\* what diff() resolves with; answered records the provider query's answer of that run
NoResult == [isNull |-> TRUE, changes |-> <<>>, answered |-> NULL, rejected |-> FALSE]
Result(c, answered) ==
  [isNull |-> FALSE, changes |-> c, answered |-> answered, rejected |-> FALSE]
\* diff() rejects: a collaborator's promise rejected and nothing in diff(),
\* getOriginalURIPromise() or getOriginalResource() catches it
Rejected == [isNull |-> TRUE, changes |-> <<>>, answered |-> NULL, rejected |-> TRUE]
\* no completion handler ran in the step
NotFired ==
  [handler |-> "none", emitted |-> FALSE, splices |-> <<>>, before |-> <<>>,
   result |-> NoResult]

\* a finished query is observed for one step only
QueryInFlight == IF lastQuery.done THEN NoQuery ELSE lastQuery
\* the step leaves the run of diff() alone
NoRun == UNCHANGED runVars /\ lastQuery' = QueryInFlight

Range(s) == {s[i] : i \in 1..Len(s)}
Remove(s, x) == SelectSeq(s, LAMBDA y : y # x)

\* the reference i (0 = none) is disposed; what it referred to is gone with it
DisposeRef(rs, i) ==
  IF i = 0 THEN rs
  ELSE [rs EXCEPT ![i] = [uri |-> NULL, disposals |-> @.disposals + 1]]

\* getOriginalURIPromise keeping the previous reference when it stores a new one
ClearStoreKeeps(rs, i) == rs

\* this.originalModelDisposables.clear(): the reference held so far is disposed
ClearStore(rs, i) == DisposeRef(rs, i)

\* repositoryDisposables with no DisposableStore in it
NoSubscriptions == [p \in Providers |-> 0]

\* onDidAddRepository that subscribes to nothing
SubscribeNothing(subs, p) == subs

\* onDidAddRepository: one more DisposableStore holding the subscription to the
\* change events of p
Subscribe(subs, p) == [subs EXCEPT ![p] = @ + 1]

\* dispose() leaving the DisposableStores of the providers alone
DisposeNone(subs) == subs

\* dispose(): repositoryDisposables.forEach((d) => dispose(d)); clear()
DisposeAll(subs) == NoSubscriptions

\* the constructor: repositories.forEach((r) => this.onDidAddRepository(r))
RECURSIVE SubscribeAll(_, _)
SubscribeAll(subs, reps) ==
  IF reps = <<>> THEN subs
  ELSE SubscribeAll(Subscribe(subs, Head(reps)), Tail(reps))

\* --------------------------------------------- the coalescing delay gate
\* ThrottledDelayer.trigger: idle -> scheduled (one timer), scheduled absorbs,
\* running queues one follow-up run
DelayerTrigger ==
  CASE gate = "idle" ->
         /\ gate' = "scheduled" /\ timeLeft' = DiffDelay /\ waiters' = 1
         /\ UNCHANGED queuedWaiters
    [] gate = "scheduled" ->
         /\ waiters' = waiters + 1
         /\ UNCHANGED <<gate, timeLeft, queuedWaiters>>
    [] gate = "running" ->
         /\ gate' = "requeued" /\ queuedWaiters' = 1
         /\ UNCHANGED <<timeLeft, waiters>>
    [] OTHER ->
         /\ queuedWaiters' = queuedWaiters + 1
         /\ UNCHANGED <<gate, timeLeft, waiters>>

\* ThrottledDelayer.cancel: the pending timer and the queued follow-up are suppressed
DelayerCancel ==
  CASE gate = "scheduled" ->
         /\ gate' = "idle" /\ timeLeft' = 0 /\ waiters' = 0
         /\ UNCHANGED queuedWaiters
    [] gate = "requeued" ->
         /\ gate' = "running" /\ queuedWaiters' = 0
         /\ UNCHANGED <<timeLeft, waiters>>
    [] OTHER -> UNCHANGED gateVars

\* room for one more trigger call within the bound
CanTrigger ==
  /\ gate = "scheduled" => waiters < MaxWaiters
  /\ gate = "requeued" => queuedWaiters < MaxWaiters

\* promise callbacks that run before any further event is delivered
MicrotaskPending == handlersLeft > 0 \/ (pc = "query" /\ qList = <<>>)

\* ------------------------------------------------------- DirtyDiffModel
Reverse(s) == [i \in 1..Len(s) |-> s[Len(s) + 1 - i]]

\* getOriginalResource querying the providers in the opposite order
getOriginalResourceReversed == IF editorModel = NULL THEN <<>> ELSE Reverse(repositories)

\* getOriginalResource: the providers handed to first(), in registry order
getOriginalResource == IF editorModel = NULL THEN <<>> ELSE repositories

\* diff() is invoked by the gate: getOriginalURIPromise() starts the provider query
StartDiff(since) ==
  /\ pc' = "query"
  /\ qList' = getOriginalResource
  /\ qIndex' = 1
  /\ pendingUri' = NULL
  /\ originalURIPromise' = TRUE
  /\ runsSince' = since + 1
  /\ lastQuery' = [known |-> repositories, asked |-> <<>>, result |-> NULL, done |-> FALSE]

\* first(): the default shouldStop, a truthy answer
shouldStop(t) == t # NULL

\* triggerDiff calling diff() itself, without the delayer
triggerDiffUngated ==
  IF diffDelayer = NULL
    THEN UNCHANGED gateVars /\ NoRun
    ELSE UNCHANGED gateVars /\ StartDiff(runsSince)

\* triggerDiff calling the delayer and, besides, diff() at once
triggerDiffAlsoRuns ==
  IF diffDelayer = NULL
    THEN UNCHANGED gateVars /\ NoRun
    ELSE DelayerTrigger /\ StartDiff(runsSince)

\* triggerDiff calling diff() itself when the delayer is busy with a run
triggerDiffRunsWhenBusy ==
  IF diffDelayer = NULL
    THEN UNCHANGED gateVars /\ NoRun
  ELSE IF pc # "idle"
    THEN DelayerTrigger /\ StartDiff(runsSince)
  ELSE DelayerTrigger /\ NoRun

\* triggerDiff, up to the call of the delayer
triggerDiff ==
  IF diffDelayer = NULL
    THEN UNCHANGED gateVars /\ NoRun
    ELSE DelayerTrigger /\ NoRun

\* diff() resolves with result: the gate delivers it to the waiting trigger calls
\* and starts the queued follow-up run, if any
SettleRun(result, q) ==
  /\ handlersLeft' = waiters
  /\ handlerResult' = IF waiters = 0 THEN NoResult ELSE result
  /\ IF gate = "requeued"
       THEN /\ gate' = "running" /\ waiters' = queuedWaiters /\ queuedWaiters' = 0
            /\ UNCHANGED timeLeft
            /\ StartDiff(0)
       ELSE /\ gate' = "idle" /\ waiters' = 0
            /\ UNCHANGED <<timeLeft, queuedWaiters>>
            /\ pc' = "idle" /\ qList' = <<>> /\ qIndex' = 1 /\ pendingUri' = NULL
            /\ originalURIPromise' = FALSE
            /\ runsSince' = 0
            /\ lastQuery' = q

\* the run goes on to its next asynchronous call
Continue(nextPc, uri, promise, q) ==
  /\ pc' = nextPc /\ pendingUri' = uri /\ originalURIPromise' = promise
  /\ qList' = <<>> /\ qIndex' = 1
  /\ lastQuery' = q
  /\ UNCHANGED <<runsSince, gateVars, settleVars>>

\* diff(): the callback on getOriginalURIPromise()
DiffThen(originalURI, q, answered) ==
  IF editorModel = NULL \/ editorDisposed \/ originalURI = NULL
    THEN SettleRun(Result(<<>>, answered), q)
    ELSE \E canComputeDiff \in BOOLEAN :
           IF ~canComputeDiff
             THEN SettleRun(Result(<<>>, answered), q)
             ELSE Continue("computeDiff", originalURI, FALSE, q)

\* getOriginalURIPromise(): the callback on getOriginalResource()
OriginalResolved(originalUri, q) ==
  IF editorModel = NULL
    THEN UNCHANGED <<originalModel, originalEmpty>> /\ DiffThen(NULL, q, originalUri)
  ELSE IF originalUri = NULL
    THEN originalModel' = 0 /\ originalEmpty' = FALSE /\ DiffThen(NULL, q, originalUri)
  ELSE IF originalModel # 0 /\ refs[originalModel].uri = originalUri
    THEN /\ UNCHANGED <<originalModel, originalEmpty>>
         /\ DiffThen(originalUri, q, originalUri)
  ELSE /\ UNCHANGED <<originalModel, originalEmpty>>
       /\ Continue("createRef", originalUri, TRUE, q)

\* the handler of triggerDiff without its disposed check
HandlerNeverReturnsEarly == FALSE

\* the handler of triggerDiff returns without touching _changes
HandlerReturnsEarly ==
  \/ editorModel = NULL
  \/ editorDisposed
  \/ originalModel = 0
  \/ refs[originalModel].disposals > 0

\* the handler leaving _changes as it was
AssignChangesKeepsOld(old, new) == old

\* this._changes = changes
AssignChanges(old, new) == new

\* the whole ChangeSet replaced by one splice
ChangeDeltaFullReplace(old, new) ==
  IF old = new THEN <<>>
  ELSE <<[start |-> 0, deleteCount |-> Len(old), toInsert |-> new]>>

\* firing whatever the diff is
ShouldFireAlways(diff) == TRUE

\* const diff = sortedDiff(this._changes, changes, compareChanges)
ChangeDelta(old, new) == sortedDiff(old, new)

\* if (diff.length > 0) fire
ShouldFire(diff) == Len(diff) > 0

\* ----------------------------------------------------------- navigation
NoFind == [op |-> "none", lineNumber |-> 0, inclusive |-> TRUE, result |-> 0]

\* findNextClosestChange: the loop from index i (0-based) upwards; 0 if none qualifies
RECURSIVE findNextLoop(_, _, _, _)
findNextLoop(cs, i, lineNumber, inclusive) ==
  IF i >= Len(cs) THEN 0
  ELSE IF inclusive /\ getModifiedEndLineNumber(cs[i + 1]) >= lineNumber THEN i
  ELSE IF ~inclusive /\ cs[i + 1].modifiedStartLineNumber > lineNumber THEN i
  ELSE findNextLoop(cs, i + 1, lineNumber, inclusive)

findNextClosestChange(lineNumber, inclusive) ==
  findNextLoop(changes, 0, lineNumber, inclusive)

\* findPreviousClosestChange falling back to the first index
NoPreviousChangeFirst(cs) == 0

\* findPreviousClosestChange: return this.changes.length - 1
NoPreviousChange(cs) == Len(cs) - 1

\* findPreviousClosestChange: the loop from index i (0-based) downwards
RECURSIVE findPreviousLoop(_, _, _, _)
findPreviousLoop(cs, i, lineNumber, inclusive) ==
  IF i < 0 THEN NoPreviousChange(cs)
  ELSE IF inclusive /\ cs[i + 1].modifiedStartLineNumber <= lineNumber THEN i
  ELSE IF ~inclusive /\ getModifiedEndLineNumber(cs[i + 1]) < lineNumber THEN i
  ELSE findPreviousLoop(cs, i - 1, lineNumber, inclusive)

findPreviousClosestChange(lineNumber, inclusive) ==
  findPreviousLoop(changes, Len(changes) - 1, lineNumber, inclusive)

\* a call of findNextClosestChange
FindNext(lineNumber, inclusive) ==
  /\ lastFind' = [op |-> "next", lineNumber |-> lineNumber, inclusive |-> inclusive,
                  result |-> findNextClosestChange(lineNumber, inclusive)]
  /\ UNCHANGED <<trackerVars, compareVars>>

\* a call of findPreviousClosestChange
FindPrevious(lineNumber, inclusive) ==
  /\ lastFind' = [op |-> "previous", lineNumber |-> lineNumber, inclusive |-> inclusive,
                  result |-> findPreviousClosestChange(lineNumber, inclusive)]
  /\ UNCHANGED <<trackerVars, compareVars>>

\* ------------------------------------------------------- CompareService
\* URI.from({scheme: 'diff', query: stringifyQuery({name, original, modified, comparing})})
CompareUri(original, modified, name) ==
  <<"diff", <<"name", name>>, <<"original", original>>, <<"modified", modified>>,
    <<"comparing", "true">>>>

\* the triples compare() is called with: two different resources and a name
CompareTriples ==
  {t \in Resources \X Resources \X Names : t[1] # t[2]}

CompareUris == {CompareUri(t[1], t[2], t[3]) : t \in CompareTriples}

CompareResults == {"accept", "revert"}

NoCall == [made |-> FALSE, key |-> <<>>, handle |-> 0, created |-> FALSE, opensBefore |-> 0]

\* Deferred.resolve: a Deferred settles once
DeferredResolve(d, outcome) ==
  IF d.state = "pending" THEN [d EXCEPT !.state = outcome] ELSE d

\* OPEN_RESOURCE executed only by the call that creates the entry
OpensResourceOnCreate(created) == created

\* compare(): OPEN_RESOURCE is executed by every call, whether the entry is new or not
OpensResource(created) == TRUE

\* compare(original, modified, name)
Compare(original, modified, name) ==
  LET compareUri == CompareUri(original, modified, name)
      created == comparing[compareUri] = 0
      withNew == IF created
                   THEN Append(deferreds, [key |-> compareUri, state |-> "pending",
                                           thenRun |-> FALSE, opened |-> 0, closed |-> 0])
                   ELSE deferreds
      handle == IF created THEN Len(withNew) ELSE comparing[compareUri]
  IN /\ created => Len(deferreds) < MaxDeferreds
     /\ withNew[handle].opened < MaxOpens
     /\ comparing' = [comparing EXCEPT ![compareUri] = handle]
     /\ deferreds' = IF OpensResource(created)
                       THEN [withNew EXCEPT ![handle].opened = @ + 1]
                       ELSE withNew
     /\ lastCall' = [made |-> TRUE, key |-> compareUri, handle |-> handle,
                     created |-> created, opensBefore |-> withNew[handle].opened]
     /\ UNCHANGED <<trackerVars, navVars>>

\* the commands editor.diff.accept / editor.diff.revert on the resource uri
DiffCommand(uri, outcome) ==
  /\ deferreds' = IF comparing[uri] # 0
                    THEN [deferreds EXCEPT ![comparing[uri]] = DeferredResolve(@, outcome)]
                    ELSE deferreds
  /\ lastCall' = NoCall
  /\ UNCHANGED <<comparing, trackerVars, navVars>>

\* a settlement callback that executes CLOSE_ALL and leaves the entry in the map
SettlementCallbackKeepsEntry(i) ==
  /\ i \in 1..Len(deferreds)
  /\ deferreds[i].state # "pending" /\ ~deferreds[i].thenRun
  /\ deferreds' = [deferreds EXCEPT ![i].thenRun = TRUE, ![i].closed = @ + 1]
  /\ lastCall' = NoCall
  /\ UNCHANGED <<comparing, trackerVars, navVars>>

\* deferred.promise.then(...): the settlement callback registered by compare()
SettlementCallback(i) ==
  /\ i \in 1..Len(deferreds)
  /\ deferreds[i].state # "pending" /\ ~deferreds[i].thenRun
  /\ comparing' = [comparing EXCEPT ![deferreds[i].key] = 0]
  /\ deferreds' = [deferreds EXCEPT ![i].thenRun = TRUE, ![i].closed = @ + 1]
  /\ lastCall' = NoCall
  /\ UNCHANGED <<trackerVars, navVars>>

\* --------------------------------------------------------------- actions
\* the delay gate's clock advances
Tick ==
  /\ ~MicrotaskPending
  /\ gate = "scheduled" /\ timeLeft > 0
  /\ timeLeft' = IF timeLeft > TickStep THEN timeLeft - TickStep ELSE 0
  /\ fired' = NotFired /\ UNCHANGED view
  /\ NoRun
  /\ UNCHANGED <<gate, waiters, queuedWaiters, settleVars, modelVars,
                 envVars, compareVars, navVars>>

\* the delay gate's timer fires: the scheduled run starts
TimerFire ==
  /\ ~MicrotaskPending
  /\ gate = "scheduled" /\ timeLeft = 0
  /\ gate' = "running"
  /\ StartDiff(runsSince)
  /\ fired' = NotFired /\ UNCHANGED view
  /\ UNCHANGED <<timeLeft, waiters, queuedWaiters, settleVars, modelVars,
                 envVars, compareVars, navVars>>

\* first(): the provider at qIndex answers, or its promise rejects; the first
\* non-empty answer wins
QueryStep ==
  /\ pc = "query" /\ handlersLeft = 0
  /\ IF qIndex > Len(qList)
       THEN OriginalResolved(NULL, [lastQuery EXCEPT !.done = TRUE])
       ELSE LET a == answer[qList[qIndex]]
                asked == Append(lastQuery.asked,
                                [provider |-> qList[qIndex], answer |-> a])
            IN \/ /\ SettleRun(Rejected, NoQuery)
                  /\ UNCHANGED <<originalModel, originalEmpty>>
               \/ IF shouldStop(a)
                    THEN OriginalResolved(a, [lastQuery EXCEPT !.asked = asked,
                                                !.result = a, !.done = TRUE])
                  ELSE IF qIndex = Len(qList)
                    THEN OriginalResolved(NULL, [lastQuery EXCEPT !.asked = asked,
                                                   !.done = TRUE])
                  ELSE /\ qIndex' = qIndex + 1
                       /\ lastQuery' = [lastQuery EXCEPT !.asked = asked]
                       /\ UNCHANGED <<pc, qList, pendingUri, originalURIPromise,
                                      runsSince, gateVars, settleVars, originalModel,
                                      originalEmpty>>
  /\ fired' = NotFired /\ UNCHANGED view
  /\ UNCHANGED <<editorModel, diffDelayer, repositoryDisposables, disposed, storeRef,
                 changes, editorDisposed, repositories, answer, refs, compareVars, navVars>>

\* createModelReference settles, with a reference or with nothing, or rejects
CreateRefSettle ==
  /\ ~MicrotaskPending
  /\ pc = "createRef"
  /\ \/ /\ SettleRun(Rejected, QueryInFlight)
        /\ UNCHANGED <<refs, originalModel, storeRef, originalEmpty>>
     \/ \E docModelRef \in BOOLEAN, empty \in BOOLEAN :
            /\ docModelRef => Len(refs) < MaxRefs
            /\ ~docModelRef => ~empty
            /\ IF docModelRef
                 THEN LET acquired == Append(refs, [uri |-> pendingUri, disposals |-> 0])
                      IN IF editorModel = NULL
                           THEN /\ refs' = acquired
                                /\ UNCHANGED <<originalModel, storeRef, originalEmpty>>
                                /\ DiffThen(NULL, QueryInFlight, pendingUri)
                           ELSE /\ originalModel' = Len(acquired)
                                /\ originalEmpty' = empty
                                /\ storeRef' = Len(acquired)
                                /\ refs' = ClearStore(acquired, storeRef)
                                /\ DiffThen(pendingUri, QueryInFlight, pendingUri)
                 ELSE /\ UNCHANGED <<refs, originalModel, storeRef, originalEmpty>>
                      /\ DiffThen(NULL, QueryInFlight, pendingUri)
  /\ fired' = NotFired /\ UNCHANGED view
  /\ UNCHANGED <<editorModel, diffDelayer, repositoryDisposables, disposed, changes,
                 editorDisposed, repositories, answer, compareVars, navVars>>

\* computeDiff settles: ret && ret.changes with changes out of universe, or it rejects
ComputeDiffSettles(universe) ==
  /\ ~MicrotaskPending
  /\ pc = "computeDiff"
  /\ \E ret \in {Rejected, [NoResult EXCEPT !.answered = pendingUri]}
                  \cup {Result(c, pendingUri) : c \in universe} :
       SettleRun(ret, QueryInFlight)
  /\ fired' = NotFired /\ UNCHANGED view
  /\ UNCHANGED <<modelVars, envVars, compareVars, navVars>>

ComputeDiffSettle == ComputeDiffSettles(ChangeSets)

\* triggerDiff: the completion handler of one trigger call; the promise of a
\* rejected run skips the .then callback and is returned rejected
Handler ==
  /\ handlersLeft > 0
  /\ handlersLeft' = handlersLeft - 1
  /\ handlerResult' = IF handlersLeft = 1 THEN NoResult ELSE handlerResult
  /\ IF handlerResult.rejected
       THEN /\ UNCHANGED <<changes, view>>
            /\ fired' = [NotFired EXCEPT !.handler = "skipped", !.before = changes,
                                          !.result = handlerResult]
     ELSE IF HandlerReturnsEarly
       THEN /\ UNCHANGED <<changes, view>>
            /\ fired' = [NotFired EXCEPT !.handler = "early", !.before = changes,
                                          !.result = handlerResult]
       ELSE LET new == IF handlerResult.isNull \/ originalEmpty
                         THEN <<>> ELSE handlerResult.changes
                diff == ChangeDelta(changes, new)
            IN /\ changes' = AssignChanges(changes, new)
               /\ view' = IF ShouldFire(diff) THEN ApplySplices(view, diff) ELSE view
               /\ fired' = [handler |-> "applied", emitted |-> ShouldFire(diff),
                            splices |-> IF ShouldFire(diff) THEN diff ELSE <<>>,
                            before |-> changes, result |-> handlerResult]
  /\ NoRun
  /\ UNCHANGED <<gateVars, editorModel, originalModel, diffDelayer,
                 repositoryDisposables, disposed, storeRef, envVars, compareVars, navVars>>

\* editorModel.onDidChangeContent
EditorContentChange ==
  /\ ~MicrotaskPending
  /\ ~editorDisposed
  /\ IF disposed
       THEN UNCHANGED gateVars /\ NoRun
       ELSE CanTrigger /\ triggerDiff
  /\ fired' = NotFired /\ UNCHANGED view
  /\ UNCHANGED <<settleVars, modelVars, envVars, compareVars, navVars>>

\* the editor disposes the document without disposing the tracker
EditorModelDisposed ==
  /\ ~MicrotaskPending
  /\ editorModel # NULL /\ ~editorDisposed
  /\ editorDisposed' = TRUE
  /\ fired' = NotFired /\ UNCHANGED view
  /\ NoRun
  /\ UNCHANGED <<gateVars, settleVars, modelVars, originalEmpty,
                 repositories, answer, refs, compareVars, navVars>>

\* the content of the referenced original document changes
OriginalContentChange ==
  /\ ~MicrotaskPending
  /\ storeRef # 0
  /\ CanTrigger
  /\ \E empty \in BOOLEAN : originalEmpty' = (originalModel # 0 /\ empty)
  /\ triggerDiff
  /\ fired' = NotFired /\ UNCHANGED view
  /\ UNCHANGED <<settleVars, modelVars, editorDisposed, repositories, answer, refs,
                 compareVars, navVars>>

\* scmService.onDidAddRepository -> onDidAddRepository
AddRepository(p, a) ==
  /\ ~MicrotaskPending
  /\ p \notin Range(repositories)
  /\ repositories' = Append(repositories, p)
  /\ answer' = [answer EXCEPT ![p] = a]
  /\ IF disposed
       THEN UNCHANGED <<repositoryDisposables, gateVars>> /\ NoRun
       ELSE /\ repositoryDisposables' = Subscribe(repositoryDisposables, p)
            /\ CanTrigger
            /\ triggerDiff
  /\ fired' = NotFired /\ UNCHANGED view
  /\ UNCHANGED <<settleVars, editorModel, originalModel, diffDelayer, disposed, storeRef,
                 changes, editorDisposed, originalEmpty, refs, compareVars, navVars>>

\* scmService.onDidRemoveRepository -> onDidRemoveThis; the removed provider answers no more
RemoveRepository(p) ==
  /\ ~MicrotaskPending
  /\ p \in Range(repositories)
  /\ repositories' = Remove(repositories, p)
  /\ repositoryDisposables' = [repositoryDisposables EXCEPT ![p] = 0]
  /\ answer' = [answer EXCEPT ![p] = NULL]
  /\ fired' = NotFired /\ UNCHANGED view
  /\ NoRun
  /\ UNCHANGED <<gateVars, settleVars, editorModel, originalModel, diffDelayer,
                 disposed, storeRef, changes, editorDisposed, originalEmpty, refs,
                 compareVars, navVars>>

\* provider.onDidChange / onDidChangeResources
ProviderChange(p, a) ==
  /\ ~MicrotaskPending
  /\ p \in Range(repositories)
  /\ answer' = [answer EXCEPT ![p] = a]
  /\ IF repositoryDisposables[p] > 0
       THEN CanTrigger /\ triggerDiff
       ELSE UNCHANGED gateVars /\ NoRun
  /\ fired' = NotFired /\ UNCHANGED view
  /\ UNCHANGED <<settleVars, modelVars, editorDisposed, originalEmpty, repositories, refs,
                 compareVars, navVars>>

\* dispose()
Dispose ==
  /\ ~MicrotaskPending
  /\ diffDelayer # NULL
  /\ disposed' = TRUE
  /\ refs' = DisposeRef(refs, storeRef)
  /\ storeRef' = 0
  /\ editorModel' = NULL
  /\ originalModel' = 0
  /\ originalEmpty' = FALSE
  /\ DelayerCancel
  /\ diffDelayer' = NULL
  /\ repositoryDisposables' = DisposeAll(repositoryDisposables)
  /\ fired' = NotFired /\ UNCHANGED view
  /\ NoRun
  /\ UNCHANGED <<settleVars, changes, editorDisposed, repositories, answer,
                 compareVars, navVars>>

\* registries a tracker can be constructed against
InitRepositories ==
  {<<>>} \cup {<<p>> : p \in Providers}

CompareInit ==
  /\ comparing = [k \in CompareUris |-> 0]
  /\ deferreds = <<>>
  /\ lastCall = NoCall

\* the state the constructor leaves: every known provider subscribed, one run scheduled
TrackerInit(reps, ans) ==
  /\ editorModel = "doc" /\ originalModel = 0 /\ diffDelayer = "delayer"
  /\ originalURIPromise = FALSE
  /\ repositoryDisposables = SubscribeAll(NoSubscriptions, reps)
  /\ disposed = FALSE /\ storeRef = 0 /\ changes = <<>>
  /\ gate = "scheduled" /\ timeLeft = DiffDelay
  /\ waiters = Len(reps) + 1 /\ queuedWaiters = 0
  /\ pc = "idle" /\ qList = <<>> /\ qIndex = 1 /\ pendingUri = NULL
  /\ handlersLeft = 0 /\ handlerResult = NoResult
  /\ editorDisposed = FALSE /\ originalEmpty = FALSE
  /\ repositories = reps /\ answer = ans /\ refs = <<>>
  /\ fired = NotFired /\ runsSince = 0 /\ lastQuery = NoQuery
  /\ view = <<>>
  /\ lastFind = NoFind

Init ==
  /\ \E reps \in InitRepositories, ans \in [Providers -> Uris \cup {NULL}] :
       /\ \A p \in Providers \ Range(reps) : ans[p] = NULL
       /\ TrackerInit(reps, ans)
  /\ CompareInit

Next ==
  \/ Tick
  \/ TimerFire
  \/ QueryStep
  \/ CreateRefSettle
  \/ ComputeDiffSettle
  \/ Handler
  \/ EditorContentChange
  \/ EditorModelDisposed
  \/ OriginalContentChange
  \/ \E p \in Providers, a \in Uris \cup {NULL} : AddRepository(p, a)
  \/ \E p \in Providers : RemoveRepository(p)
  \/ \E p \in Providers, a \in Uris \cup {NULL} : ProviderChange(p, a)
  \/ Dispose

Spec == Init /\ [][Next]_vars

CompareNext ==
  \/ \E t \in CompareTriples : Compare(t[1], t[2], t[3])
  \/ \E uri \in CompareUris, outcome \in CompareResults : DiffCommand(uri, outcome)
  \/ \E i \in 1..MaxDeferreds : SettlementCallback(i)

\* CompareService on its own, beside a freshly constructed tracker
CompareSpecInit ==
  /\ TrackerInit(<<>>, [p \in Providers |-> NULL])
  /\ CompareInit

CompareSpec == CompareSpecInit /\ [][CompareNext]_vars

\* a promise callback is a microtask: once its Deferred is settled it runs
CompareFairness == \A i \in 1..MaxDeferreds : WF_vars(SettlementCallback(i))

CompareLiveSpec == CompareSpecInit /\ [][CompareNext]_vars /\ CompareFairness

NavNext ==
  \/ \E lineNumber \in NavLines, inclusive \in BOOLEAN : FindNext(lineNumber, inclusive)
  \/ \E lineNumber \in NavLines, inclusive \in BOOLEAN : FindPrevious(lineNumber, inclusive)

\* a tracker at rest after a run on the original of P1: it holds the ChangeSet c
NavInit(c) ==
  /\ editorModel = "doc" /\ originalModel = 1 /\ diffDelayer = "delayer"
  /\ originalURIPromise = FALSE
  /\ repositoryDisposables = SubscribeAll(NoSubscriptions, <<"P1">>)
  /\ disposed = FALSE /\ storeRef = 1 /\ changes = c
  /\ gate = "idle" /\ timeLeft = 0 /\ waiters = 0 /\ queuedWaiters = 0
  /\ pc = "idle" /\ qList = <<>> /\ qIndex = 1 /\ pendingUri = NULL
  /\ handlersLeft = 0 /\ handlerResult = NoResult
  /\ editorDisposed = FALSE /\ originalEmpty = FALSE
  /\ repositories = <<"P1">>
  /\ answer = [p \in Providers |-> IF p = "P1" THEN "orig://x" ELSE NULL]
  /\ refs = <<[uri |-> "orig://x", disposals |-> 0]>>
  /\ fired = NotFired /\ runsSince = 0 /\ lastQuery = NoQuery
  /\ view = c
  /\ lastFind = NoFind

NavSpecInit ==
  /\ \E c \in NavChangeSets : NavInit(c)
  /\ CompareInit

\* the navigation queries on a tracker at rest
NavSpec == NavSpecInit /\ [][NavNext]_vars

\* a tracker with a fixed registry whose document is edited: the first change of
\* the diff grows and shrinks from one recompute to the next
EditingNext ==
  \/ Tick
  \/ TimerFire
  \/ QueryStep
  \/ CreateRefSettle
  \/ ComputeDiffSettles(GrowingChangeSets)
  \/ Handler
  \/ EditorContentChange

EditingSpec == Init /\ [][EditingNext]_vars

\* ------------------------------------------------------------------ claims

\* C1 (coalescing): the N >= 1 triggers absorbed while the gate's timer is pending
\* start no run of diff(), and once the timer fired exactly one run of diff() is in
\* progress for all of them.
C1_Coalescing ==
  /\ gate = "scheduled" => (waiters >= 1 /\ runsSince = 0 /\ pc = "idle")
  /\ gate \in {"running", "requeued"} => (runsSince = 1 /\ pc # "idle")
  /\ gate = "idle" => (runsSince = 0 /\ pc = "idle")

C1_Witness ==
  /\ gate = "running" /\ waiters >= 2 /\ runsSince = 1 /\ pc = "query"
  /\ handlersLeft = 0 /\ refs = <<>> /\ changes = <<>>

\* C2 (queued follow-up): triggers arriving during a run start nothing themselves;
\* when the run finishes, exactly one further run starts at once for all of them if
\* there was at least one, and none otherwise.
C2_QueuedFollowUp ==
  /\ [](gate = "requeued" => (queuedWaiters >= 1 /\ runsSince = 1))
  /\ [][(handlersLeft = 0 /\ handlersLeft' > 0) =>
          IF gate = "requeued"
            THEN /\ gate' = "running" /\ pc' = "query" /\ runsSince' = 1
                 /\ waiters' = queuedWaiters /\ queuedWaiters' = 0
            ELSE gate' = "idle" /\ pc' = "idle" /\ runsSince' = 0]_vars

C2_Witness ==
  /\ gate = "running" /\ pc = "query" /\ runsSince = 1
  /\ waiters >= 2 /\ queuedWaiters = 0
  /\ handlersLeft > 0

C4_Deduplication ==
  (lastCall.made /\ ~lastCall.created
     /\ deferreds[lastCall.handle].state = "pending") =>
    /\ comparing[lastCall.key] = lastCall.handle
    /\ deferreds[lastCall.handle].key = lastCall.key
    /\ Cardinality({i \in 1..Len(deferreds) :
                      deferreds[i].key = lastCall.key
                      /\ deferreds[i].state = "pending"}) = 1
    /\ deferreds[lastCall.handle].opened = lastCall.opensBefore + 1

C4_Witness ==
  /\ lastCall.made /\ ~lastCall.created
  /\ deferreds[lastCall.handle].state = "pending"
  /\ deferreds[lastCall.handle].opened = 2

\* C4 as stated: a compare() call for a triple whose comparison is still pending
\* triggers no UI-open, so that UI-open has been triggered exactly once for it.
C4_OpenedOnce ==
  (lastCall.made /\ ~lastCall.created
     /\ deferreds[lastCall.handle].state = "pending") =>
    deferreds[lastCall.handle].opened = 1

\* C5 (compare settlement cleanup): every compare() call returns an unsettled
\* PendingComparison, also when it is made after a resolve signal for the same
\* triple and before the settlement callback has removed the entry.
C5_FreshAfterResolve ==
  lastCall.made => deferreds[lastCall.handle].state = "pending"

\* C6 (original-buffer release): no reference is disposed twice, and once the
\* tracker is disposed and nothing is in flight every reference acquired from the
\* resolver has been disposed.
C6_OriginalBufferRelease ==
  /\ \A i \in 1..Len(refs) : refs[i].disposals <= 1
  /\ (disposed /\ pc = "idle" /\ handlersLeft = 0) =>
       \A i \in 1..Len(refs) : refs[i].disposals = 1

\* C7 (no-op on identical result): a handler that finds the new ChangeSet equal to
\* the previous one fires nothing, and every fired delta holds at least one splice.
C7_NoOpOnIdentical ==
  /\ fired.emitted => Len(fired.splices) > 0
  /\ (fired.handler = "applied" /\ changes = fired.before) => ~fired.emitted

C7_Witness ==
  /\ fired.handler = "applied"
  /\ changes = fired.before /\ changes # <<>>
  /\ ~fired.emitted

\* C8 (minimal delta): when the new ChangeSet holds every entry of the previous
\* one, the fired splices delete nothing and insert exactly the additional entries.
C8_MinimalDelta ==
  (fired.handler = "applied" /\ Range(fired.before) \subseteq Range(changes)) =>
    /\ \A i \in 1..Len(fired.splices) : fired.splices[i].deleteCount = 0
    /\ UNION {Range(fired.splices[i].toInsert) : i \in 1..Len(fired.splices)}
         = Range(changes) \ Range(fired.before)

C8_Witness ==
  /\ fired.handler = "applied"
  /\ fired.before = <<ChangeA>>
  /\ changes = <<ChangeA, ChangeB>>
  /\ fired.splices = <<[start |-> 1, deleteCount |-> 0, toInsert |-> <<ChangeB>>]>>

\* C9 (first responder): a finished provider query asked the providers known when
\* it began in registration order, stopped at the first non-empty answer and
\* resolved to it; it resolved to none exactly when every one of them answered
\* empty.
C9_FirstResponder ==
  lastQuery.done =>
    LET known == lastQuery.known
        asked == lastQuery.asked
        n == Len(asked)
    IN /\ n <= Len(known)
       /\ \A i \in 1..n : asked[i].provider = known[i]
       /\ \A i \in 1..(n - 1) : asked[i].answer = NULL
       /\ lastQuery.result # NULL => (n >= 1 /\ asked[n].answer = lastQuery.result)
       /\ lastQuery.result = NULL =>
            (n = Len(known) /\ \A i \in 1..n : asked[i].answer = NULL)

C9_Witness ==
  /\ lastQuery.done
  /\ lastQuery.known = <<"P1", "P2">>
  /\ Len(lastQuery.asked) = 2
  /\ lastQuery.asked[1].answer = NULL
  /\ lastQuery.result = "orig://x"

\* C10 (no provider means empty ChangeSet): after the completion handler of a run
\* in which no provider yielded an original identifier, on a tracker that is still
\* attached, the ChangeSet is empty.
C10_NoProviderEmptyChangeSet ==
  (fired.handler \in {"early", "applied"} /\ fired.result.answered = NULL
     /\ editorModel # NULL /\ ~editorDisposed) =>
    changes = <<>>

\* C11 (collaborator failure is absorbed): no run of diff() settles with a
\* rejection: a failing provider query, resolver or diff oracle is downgraded to an
\* empty ChangeSet, so no trigger call's promise is rejected.
C11_FailureAbsorbed ==
  /\ handlersLeft > 0 => ~handlerResult.rejected
  /\ fired.handler # "skipped"

\* C12 (settlement cleanup side effects): CLOSE_ALL has been executed for a
\* Deferred exactly when its settlement callback has run, once, and never while it
\* is pending; and again and again every Deferred settled so far is no longer the
\* entry of its key in the map comparing and has had its CLOSE_ALL, so that each
\* settled Deferred is eventually removed.
C12_SettlementCleanup ==
  /\ [](\A i \in 1..Len(deferreds) :
          /\ deferreds[i].closed = (IF deferreds[i].thenRun THEN 1 ELSE 0)
          /\ deferreds[i].thenRun => deferreds[i].state # "pending"
          /\ deferreds[i].thenRun => comparing[deferreds[i].key] # i)
  /\ []<>(\A i \in 1..Len(deferreds) :
            deferreds[i].state # "pending" =>
              (comparing[deferreds[i].key] # i /\ deferreds[i].closed = 1))

C12_Witness ==
  \E i \in 1..Len(deferreds) :
    /\ deferreds[i].state = "revert" /\ deferreds[i].thenRun
    /\ deferreds[i].closed = 1 /\ deferreds[i].opened = 2
    /\ comparing[deferreds[i].key] = 0

\* the 0-based indices of the ChangeSet
Indices == 0..(Len(changes) - 1)
\* the indices whose change ends at or after the line
EndingAtOrAfter(lineNumber) ==
  {i \in Indices : changes[i + 1].modifiedEndLineNumber >= lineNumber}
\* the indices whose change starts at or before the line
StartingAtOrBefore(lineNumber) ==
  {i \in Indices : changes[i + 1].modifiedStartLineNumber <= lineNumber}
\* the value of an inclusive find: the smallest / largest qualifying index, or the
\* first / last index when none qualifies
InclusiveFindValue ==
  IF lastFind.op = "next"
    THEN LET q == EndingAtOrAfter(lastFind.lineNumber)
         IN IF q = {} THEN 0 ELSE CHOOSE i \in q : \A j \in q : i <= j
    ELSE LET q == StartingAtOrBefore(lastFind.lineNumber)
         IN IF q = {} THEN Len(changes) - 1 ELSE CHOOSE i \in q : \A j \in q : i >= j

\* C13 as amended (navigation wraparound): an inclusive find on a non-empty
\* ChangeSet returns the smallest index whose change ends at or after the line
\* (next) or the largest whose change starts at or before it (previous), index 0
\* resp. the last index when none qualifies, and that is an index of the
\* ChangeSet; on the empty ChangeSet next returns 0 and previous returns -1.
C13_NavigationWraparound ==
  (lastFind.op # "none" /\ lastFind.inclusive) =>
    /\ lastFind.result = InclusiveFindValue
    /\ changes # <<>> => lastFind.result \in Indices
    /\ changes = <<>> => lastFind.result = (IF lastFind.op = "next" THEN 0 ELSE -1)

C13_Witness ==
  /\ Len(changes) = 3
  /\ lastFind.op = "previous" /\ lastFind.inclusive
  /\ lastFind.lineNumber = 1 /\ lastFind.result = 2

\* C13 as stated: an inclusive find returns that value and it is always an index
\* of the ChangeSet.
C13_AlwaysAnIndex ==
  (lastFind.op # "none" /\ lastFind.inclusive) =>
    /\ lastFind.result = InclusiveFindValue
    /\ lastFind.result \in Indices

\* C14 (recompute runs never overlap): at most one run of diff() is in progress in
\* every state, and a step starts a run only when none is in progress or in the
\* very step in which the run in progress settles.
C14_NoOverlap ==
  /\ [](runsSince <= 1 /\ (pc # "idle" => runsSince = 1))
  /\ [][(runsSince' > runsSince) => (pc = "idle" /\ runsSince = 0)]_vars
  /\ [][(pc \in {"createRef", "computeDiff"} /\ pc' = "query")
          => (gate = "requeued" /\ handlersLeft = 0 /\ handlersLeft' = waiters)]_vars

C14_Witness ==
  /\ gate = "requeued" /\ queuedWaiters = 2
  /\ pc = "computeDiff" /\ runsSince = 1

\* the provider whose answer first() would take: the first in registry order that
\* answers an original identifier
Winners ==
  {p \in Range(repositories) :
     /\ answer[p] # NULL
     /\ \A i, j \in 1..Len(repositories) :
          (repositories[j] = p /\ i < j) => answer[repositories[i]] = NULL}

\* C15 (provider removal triggers recompute): a step that removes from the registry
\* the provider supplying the identifier of the tracker's original buffer, while
\* the tracker is attached, leaves a recompute pending in the delay gate.
C15_RemovalTriggersRecompute ==
  [][(/\ ~disposed /\ originalModel # 0
      /\ \E p \in Winners :
           /\ p \notin Range(repositories')
           /\ refs[originalModel].uri = answer[p])
       => gate' \in {"scheduled", "requeued"}]_vars

\* C16 (subscription set tracks provider set): an attached tracker holds exactly
\* one change subscription for each provider of the registry and none for any
\* other, and a step in which a provider of the registry announces a change
\* leaves a recompute pending in the delay gate.
C16_SubscriptionsTrackProviders ==
  /\ [](~disposed =>
          \A p \in Providers :
            repositoryDisposables[p] = (IF p \in Range(repositories) THEN 1 ELSE 0))
  /\ [][(~disposed /\ repositories' = repositories /\ answer' # answer)
          => gate' \in {"scheduled", "requeued"}]_vars

C16_Witness ==
  /\ ~disposed
  /\ repositories = <<"P2", "P1">>
  /\ repositoryDisposables["P1"] = 1 /\ repositoryDisposables["P2"] = 1
  /\ answer["P2"] # NULL
  /\ gate = "requeued" /\ pc = "computeDiff"

\* the references acquired from the resolver and not disposed
Undisposed == {i \in 1..Len(refs) : refs[i].disposals = 0}

\* C17 (single original buffer): at most one acquired reference is undisposed in
\* every state and the cached buffer is the one the tracker holds; a step that
\* acquires a reference on an attached tracker does so for an identifier other
\* than the cached buffer's, releases the reference held before and makes the new
\* one the cached buffer; and a query that resolves the cached buffer's identifier
\* goes on without asking the resolver.
C17_SingleOriginalBuffer ==
  /\ [](/\ Cardinality(Undisposed) <= 1
        /\ storeRef # 0 => storeRef \in Undisposed
        /\ originalModel \in {0, storeRef})
  /\ [][(Len(refs') > Len(refs) /\ editorModel # NULL) =>
          /\ originalModel # 0 => refs[originalModel].uri # pendingUri
          /\ storeRef # 0 => refs'[storeRef].disposals = 1
          /\ storeRef' = Len(refs') /\ originalModel' = Len(refs')
          /\ refs'[Len(refs')] = [uri |-> pendingUri, disposals |-> 0]]_vars
  /\ [][(pc = "query" /\ pc' = "createRef") =>
          (originalModel = 0 \/ refs[originalModel].uri # pendingUri')]_vars

C17_Witness ==
  /\ ~disposed /\ Len(refs) = 2
  /\ refs[1].disposals = 1
  /\ refs[2] = [uri |-> "orig://y", disposals |-> 0]
  /\ storeRef = 2 /\ originalModel = 2
  /\ fired.handler = "applied"

\* C18 (detach releases subscriptions and suppresses the timer): once dispose() has
\* returned the tracker holds no provider subscription, no registry or content
\* subscription and no delayer, no timer or follow-up is pending in the gate, and
\* from then on no step schedules anything in the gate or starts a run of diff().
C18_DetachReleases ==
  /\ [](disposed =>
          /\ repositoryDisposables = NoSubscriptions
          /\ storeRef = 0 /\ diffDelayer = NULL /\ editorModel = NULL
          /\ gate \in {"idle", "running"} /\ queuedWaiters = 0)
  /\ [][disposed =>
          /\ disposed'
          /\ gate' = gate \/ (gate = "running" /\ gate' = "idle")
          /\ pc = "idle" => pc' = "idle"
          /\ runsSince' <= runsSince
          /\ (handlersLeft = 0 /\ handlersLeft' > 0) => pc' = "idle"]_vars

C18_Witness ==
  /\ disposed /\ gate = "idle" /\ pc = "idle" /\ handlersLeft = 0
  /\ Len(repositories) = 2
  /\ \E p \in Providers : answer[p] # NULL
  /\ refs = <<>> /\ changes = <<>>

\* C19 (one emission per run): the completion handlers of the trigger calls
\* coalesced into one run execute one after the other; each is given the result of
\* that run, and every handler after the first fires nothing and leaves the
\* ChangeSet as the first one set it, so the run fires at most one change delta.
C19_OneEmissionPerRun ==
  /\ [][(handlersLeft > 0 /\ fired.handler # "none") =>
          /\ fired'.handler # "none"
          /\ fired'.result = fired.result
          /\ ~fired'.emitted
          /\ changes' = changes]_vars
  /\ [][(handlersLeft > 0 /\ fired.handler = "none") =>
          (fired'.handler # "none" /\ fired'.result = handlerResult)]_vars

C19_Witness ==
  /\ handlersLeft = 1
  /\ fired.handler = "applied" /\ fired.emitted
  /\ fired.before = <<ChangeA>>
  /\ changes = <<ChangeA, ChangeB>>
  /\ handlerResult.changes = changes

====
